---- MODULE Spec2Model ----
(***************************************************************************)
(* Model of src/src/ScoringObject.cpp (DBoW2): the six bag-of-words        *)
(* scoring functions L1, L2, Chi-Square, KL, Bhattacharyya, Dot-Product.   *)
(*                                                                         *)
(* A BowVector (std::map<WordId, WordValue>) is the sequence of its        *)
(* entries <<key, value>> in iteration order, i.e. strictly ascending key. *)
(* An iterator is an index into that sequence; end() is Len + 1.           *)
(*                                                                         *)
(* A double is a normalised fraction <<n, d>> with d > 0; d = 0 marks the  *)
(* non-finite values: NaN = <<0,0>>, -inf = <<-1,0>>, +inf = <<1,0>>.      *)
(* Weights are powers of two, so log is exact when expressed in units of   *)
(* ln 2: RLog returns log2, and every KL score is in units of ln 2.        *)
(* sqrt is rounded down to a multiple of 2^-SqrtBits.                      *)
(***************************************************************************)
EXTENDS Integers, Sequences, FiniteSets, TLC

\* ---- bounds --------------------------------------------------------------
MaxKey ==
  3
MaxLen ==
  2
SqrtBits ==
  8

\* ---- double arithmetic ---------------------------------------------------
RECURSIVE GCD(_, _)
GCD(a, b) ==
  IF b = 0 THEN a ELSE GCD(b, a % b)

Abs(n) ==
  IF n < 0 THEN -n ELSE n

Sgn(n) ==
  IF n < 0 THEN -1 ELSE IF n = 0 THEN 0 ELSE 1

Norm(n, d) ==
  LET g == GCD(Abs(n), d) IN <<n \div g, d \div g>>

Zero ==
  <<0, 1>>
One ==
  <<1, 1>>
Half ==
  <<1, 2>>
Two ==
  <<2, 1>>
NaN ==
  <<0, 0>>
NegInf ==
  <<-1, 0>>
PosInf ==
  <<1, 0>>

IsFinite(x) ==
  x[2] # 0

RNeg(x) ==
  <<-x[1], x[2]>>

RAdd(x, y) ==
  IF IsFinite(x) /\ IsFinite(y) THEN Norm(x[1] * y[2] + y[1] * x[2], x[2] * y[2])
  ELSE IF x = NaN \/ y = NaN THEN NaN
  ELSE IF IsFinite(x) THEN y
  ELSE IF IsFinite(y) THEN x
  ELSE IF x = y THEN x ELSE NaN

RSub(x, y) ==
  RAdd(x, RNeg(y))

RMul(x, y) ==
  IF IsFinite(x) /\ IsFinite(y) THEN Norm(x[1] * y[1], x[2] * y[2])
  ELSE IF x = NaN \/ y = NaN THEN NaN
  ELSE IF Sgn(x[1]) * Sgn(y[1]) = 0 THEN NaN
  ELSE <<Sgn(x[1]) * Sgn(y[1]), 0>>

RDiv(x, y) ==
  IF x = NaN \/ y = NaN THEN NaN
  ELSE IF IsFinite(x) /\ IsFinite(y)
    THEN IF y[1] # 0 THEN Norm(Sgn(y[1]) * x[1] * y[2], x[2] * Abs(y[1]))
         ELSE IF x[1] = 0 THEN NaN ELSE <<Sgn(x[1]), 0>>
  ELSE IF IsFinite(y) THEN <<Sgn(x[1]) * (IF y[1] < 0 THEN -1 ELSE 1), 0>>
  ELSE IF IsFinite(x) THEN Zero
  ELSE NaN

RFabs(x) ==
  <<Abs(x[1]), x[2]>>

RECURSIVE ISqrtIter(_, _, _)
ISqrtIter(n, lo, hi) ==
  IF lo >= hi THEN lo
  ELSE LET mid == (lo + hi + 1) \div 2
       IN IF mid <= n \div mid THEN ISqrtIter(n, mid, hi) ELSE ISqrtIter(n, lo, mid - 1)

ISqrt(n) ==
  ISqrtIter(n, 0, n)

SqrtRes ==
  2 ^ SqrtBits

RSqrt(x) ==
  IF x = NaN THEN NaN
  ELSE IF x[1] < 0 THEN NaN
  ELSE IF ~IsFinite(x) THEN PosInf
  ELSE Norm(ISqrt((x[1] * SqrtRes * SqrtRes) \div x[2]), SqrtRes)

RECURSIVE ILog2(_)
ILog2(n) ==
  IF n <= 1 THEN 0 ELSE 1 + ILog2(n \div 2)

RLog(x) ==
  IF x = NaN THEN NaN
  ELSE IF x[1] < 0 THEN NaN
  ELSE IF ~IsFinite(x) THEN PosInf
  ELSE IF x[1] = 0 THEN NegInf
  ELSE <<ILog2(x[1]) - ILog2(x[2]), 1>>

\* log(DBL_EPSILON) = log(2^-52), in units of ln 2
LOG_EPS ==
  <<-52, 1>>

\* ---- BowVector -----------------------------------------------------------
Weights ==
  {Zero, Half, One}

WordIds ==
  1..MaxKey

Ascending(v) ==
  \A i \in 1..(Len(v) - 1) : v[i][1] < v[i + 1][1]

BowVector ==
  {v \in UNION {[1..n -> WordIds \X Weights] : n \in 0..MaxLen} : Ascending(v)}

KeyAt(v, i) ==
  v[i][1]

ValAt(v, i) ==
  v[i][2]

End(v) ==
  Len(v) + 1

KeysOf(v) ==
  {v[i][1] : i \in 1..Len(v)}

\* mutant: upper_bound, the first entry with key > k
lower_bound_Upper(v, k) ==
  IF \E i \in 1..Len(v) : v[i][1] > k
  THEN CHOOSE i \in 1..Len(v) : v[i][1] > k /\ \A j \in 1..(i - 1) : v[j][1] <= k
  ELSE End(v)

\* std::map::lower_bound: the first entry with key >= k, or end()
lower_bound(v, k) ==
  IF \E i \in 1..Len(v) : v[i][1] >= k
  THEN CHOOSE i \in 1..Len(v) : v[i][1] >= k /\ \A j \in 1..(i - 1) : v[j][1] < k
  ELSE End(v)

\* std::map::find: the entry with key k, or end()
find(v, k) ==
  IF \E i \in 1..Len(v) : v[i][1] = k
  THEN CHOOSE i \in 1..Len(v) : v[i][1] = k
  ELSE End(v)

\* ---- state ---------------------------------------------------------------
VARIABLES
  variant,        \* which GeneralScoring subclass's score() is running
  v1, v2,         \* the two arguments
  v1_it, v2_it,   \* the two cursors of the merge loops
  score,          \* the local accumulator, then the returned value
  pc,             \* "run" while score() executes, "done" once it returned
  evals,          \* every division / logarithm evaluated so far: <<op, operand>>
  matched,        \* keys on which the match branch was taken, in order
  iters,          \* iterations of the merge loop executed so far
  task,           \* L2: the for_each lambda's progress, one task per entry of v1
  partialScores,  \* L2: the storage of the shared std::vector
  finish          \* L2: number of elements of partialScores (its end pointer)

vars ==
  <<variant, v1, v2, v1_it, v2_it, score, pc, evals, matched, iters,
    task, partialScores, finish>>

Variants ==
  {"L1", "L2", "ChiSquare", "KL", "Bhattacharyya", "DotProduct"}

\* The locals of a running merge loop, as one record.
Locals(i1, i2, sc, ev, m, n) ==
  [it1 |-> i1, it2 |-> i2, score |-> sc, evals |-> ev, matched |-> m, iters |-> n]

Begin ==
  Locals(1, 1, Zero, {}, <<>>, 0)

InLoop(a, b, s) ==
  s.it1 # End(a) /\ s.it2 # End(b)

\* ---- L1Scoring::score ----------------------------------------------------
L1Term(vi, wi) ==
  RSub(RSub(RFabs(RSub(vi, wi)), RFabs(vi)), RFabs(wi))

L1Iter(a, b, s) ==
  IF KeyAt(a, s.it1) = KeyAt(b, s.it2)
  THEN [s EXCEPT !.score = RAdd(@, L1Term(ValAt(a, s.it1), ValAt(b, s.it2))),
                 !.it1 = @ + 1, !.it2 = @ + 1,
                 !.matched = Append(@, KeyAt(a, s.it1)), !.iters = @ + 1]
  ELSE IF KeyAt(a, s.it1) < KeyAt(b, s.it2)
  THEN [s EXCEPT !.it1 = @ + 1, !.iters = @ + 1]
  ELSE [s EXCEPT !.it2 = @ + 1, !.iters = @ + 1]

\* mutant: the division by 2.0 forgotten
L1Post_NoHalving(s) ==
  [s EXCEPT !.score = RNeg(@)]

L1Post(s) ==
  [s EXCEPT !.score = RDiv(RNeg(@), Two), !.evals = @ \cup {<<"div", Two>>}]

\* ---- ChiSquareScoring::score ---------------------------------------------
\* mutant: v1 is sought for its own current key, so the cursor stays
ChiIter_OwnKey(a, b, s) ==
  LET vi == ValAt(a, s.it1)
      wi == ValAt(b, s.it2)
  IN IF KeyAt(a, s.it1) = KeyAt(b, s.it2)
     THEN LET t == IF RAdd(vi, wi) # Zero
                   THEN [s EXCEPT !.score = RAdd(@, RDiv(RMul(vi, wi), RAdd(vi, wi))),
                                  !.evals = @ \cup {<<"div", RAdd(vi, wi)>>}]
                   ELSE s
          IN [t EXCEPT !.it1 = @ + 1, !.it2 = @ + 1,
                       !.matched = Append(@, KeyAt(a, s.it1)), !.iters = @ + 1]
     ELSE IF KeyAt(a, s.it1) < KeyAt(b, s.it2)
     THEN [s EXCEPT !.it1 = lower_bound(a, KeyAt(a, s.it1)), !.iters = @ + 1]
     ELSE [s EXCEPT !.it2 = lower_bound(b, KeyAt(a, s.it1)), !.iters = @ + 1]

ChiIter(a, b, s) ==
  LET vi == ValAt(a, s.it1)
      wi == ValAt(b, s.it2)
  IN IF KeyAt(a, s.it1) = KeyAt(b, s.it2)
     THEN LET t == IF RAdd(vi, wi) # Zero
                   THEN [s EXCEPT !.score = RAdd(@, RDiv(RMul(vi, wi), RAdd(vi, wi))),
                                  !.evals = @ \cup {<<"div", RAdd(vi, wi)>>}]
                   ELSE s
          IN [t EXCEPT !.it1 = @ + 1, !.it2 = @ + 1,
                       !.matched = Append(@, KeyAt(a, s.it1)), !.iters = @ + 1]
     ELSE IF KeyAt(a, s.it1) < KeyAt(b, s.it2)
     THEN [s EXCEPT !.it1 = lower_bound(a, KeyAt(b, s.it2)), !.iters = @ + 1]
     ELSE [s EXCEPT !.it2 = lower_bound(b, KeyAt(a, s.it1)), !.iters = @ + 1]


ChiPost(s) ==
  [s EXCEPT !.score = RMul(Two, @)]

\* ---- KLScoring::score ----------------------------------------------------
KLIter(a, b, s) ==
  LET vi == ValAt(a, s.it1)
      wi == ValAt(b, s.it2)
  IN IF KeyAt(a, s.it1) = KeyAt(b, s.it2)
     THEN LET t == IF vi # Zero /\ wi # Zero
                   THEN [s EXCEPT !.score = RAdd(@, RMul(vi, RLog(RDiv(vi, wi)))),
                                  !.evals = @ \cup {<<"div", wi>>, <<"log", RDiv(vi, wi)>>}]
                   ELSE s
          IN [t EXCEPT !.it1 = @ + 1, !.it2 = @ + 1,
                       !.matched = Append(@, KeyAt(a, s.it1)), !.iters = @ + 1]
     ELSE IF KeyAt(a, s.it1) < KeyAt(b, s.it2)
     THEN [s EXCEPT !.score = RAdd(@, RMul(vi, RSub(RLog(vi), LOG_EPS))),
                    !.evals = @ \cup {<<"log", vi>>},
                    !.it1 = @ + 1, !.iters = @ + 1]
     ELSE [s EXCEPT !.it2 = lower_bound(b, KeyAt(a, s.it1)), !.iters = @ + 1]

\* mutant: the tail adds vi*log(vi), LOG_EPS forgotten
KLTailIter_NoEps(a, s) ==
  LET vi == ValAt(a, s.it1)
      t == IF vi # Zero
           THEN [s EXCEPT !.score = RAdd(@, RMul(vi, RLog(vi))),
                          !.evals = @ \cup {<<"log", vi>>}]
           ELSE s
  IN [t EXCEPT !.it1 = @ + 1]

KLTailIter(a, s) ==
  LET vi == ValAt(a, s.it1)
      t == IF vi # Zero
           THEN [s EXCEPT !.score = RAdd(@, RMul(vi, RSub(RLog(vi), LOG_EPS))),
                          !.evals = @ \cup {<<"log", vi>>}]
           ELSE s
  IN [t EXCEPT !.it1 = @ + 1]

\* ---- BhattacharyyaScoring::score -----------------------------------------
BhattIter(a, b, s) ==
  LET vi == ValAt(a, s.it1)
      wi == ValAt(b, s.it2)
  IN IF KeyAt(a, s.it1) = KeyAt(b, s.it2)
     THEN [s EXCEPT !.score = RAdd(@, RSqrt(RMul(vi, wi))),
                    !.it1 = @ + 1, !.it2 = @ + 1,
                    !.matched = Append(@, KeyAt(a, s.it1)), !.iters = @ + 1]
     ELSE IF KeyAt(a, s.it1) < KeyAt(b, s.it2)
     THEN [s EXCEPT !.it1 = lower_bound(a, KeyAt(b, s.it2)), !.iters = @ + 1]
     ELSE [s EXCEPT !.it2 = lower_bound(b, KeyAt(a, s.it1)), !.iters = @ + 1]

\* ---- DotProductScoring::score --------------------------------------------
\* mutant: the match term is vi * vi
DotIter_SquareV1(a, b, s) ==
  LET vi == ValAt(a, s.it1)
      wi == ValAt(b, s.it2)
  IN IF KeyAt(a, s.it1) = KeyAt(b, s.it2)
     THEN [s EXCEPT !.score = RAdd(@, RMul(vi, vi)),
                    !.it1 = @ + 1, !.it2 = @ + 1,
                    !.matched = Append(@, KeyAt(a, s.it1)), !.iters = @ + 1]
     ELSE IF KeyAt(a, s.it1) < KeyAt(b, s.it2)
     THEN [s EXCEPT !.it1 = lower_bound(a, KeyAt(b, s.it2)), !.iters = @ + 1]
     ELSE [s EXCEPT !.it2 = lower_bound(b, KeyAt(a, s.it1)), !.iters = @ + 1]

DotIter(a, b, s) ==
  LET vi == ValAt(a, s.it1)
      wi == ValAt(b, s.it2)
  IN IF KeyAt(a, s.it1) = KeyAt(b, s.it2)
     THEN [s EXCEPT !.score = RAdd(@, RMul(vi, wi)),
                    !.it1 = @ + 1, !.it2 = @ + 1,
                    !.matched = Append(@, KeyAt(a, s.it1)), !.iters = @ + 1]
     ELSE IF KeyAt(a, s.it1) < KeyAt(b, s.it2)
     THEN [s EXCEPT !.it1 = lower_bound(a, KeyAt(b, s.it2)), !.iters = @ + 1]
     ELSE [s EXCEPT !.it2 = lower_bound(b, KeyAt(a, s.it1)), !.iters = @ + 1]

\* ---- L2Scoring::score ----------------------------------------------------
L2Term(p1, w) ==
  RSub(RSub(RFabs(RSub(p1, w)), RFabs(p1)), RFabs(w))

\* mutant: v2 is sought with lower_bound and the key is not compared
L2Lambda_LowerBound(a, b, j) ==
  LET it == lower_bound(b, KeyAt(a, j))
  IN IF it # End(b) /\ (ValAt(a, j) # Zero \/ ValAt(b, it) # Zero)
     THEN <<TRUE, L2Term(ValAt(a, j), ValAt(b, it))>>
     ELSE <<FALSE, Zero>>

\* The lambda's test and term for entry j of v1: <<pushes, term>>.
L2Lambda(a, b, j) ==
  LET it == find(b, KeyAt(a, j))
  IN IF it # End(b) /\ (ValAt(a, j) # Zero \/ ValAt(b, it) # Zero)
     THEN <<TRUE, L2Term(ValAt(a, j), ValAt(b, it))>>
     ELSE <<FALSE, Zero>>

RECURSIVE SumSeq(_, _)
SumSeq(ps, n) ==
  IF n = 0 THEN Zero ELSE RAdd(SumSeq(ps, n - 1), ps[n])

L2Post(ps, n) ==
  RDiv(RNeg(SumSeq(ps, n)), Two)

\* One in-order, single-threaded execution of the for_each: the terms pushed
\* for entries 1..j of a.
RECURSIVE L2SeqTerms(_, _, _)
L2SeqTerms(a, b, j) ==
  IF j = 0 THEN <<>>
  ELSE LET r == L2Lambda(a, b, j)
       IN IF r[1] THEN Append(L2SeqTerms(a, b, j - 1), r[2])
          ELSE L2SeqTerms(a, b, j - 1)

L2Sequential(a, b) ==
  LET ps == L2SeqTerms(a, b, Len(a)) IN L2Post(ps, Len(ps))

\* ---- score(a, b) as a function -------------------------------------------
Iter(var, a, b, s) ==
  CASE var = "L1" -> L1Iter(a, b, s)
    [] var = "ChiSquare" -> ChiIter(a, b, s)
    [] var = "KL" -> KLIter(a, b, s)
    [] var = "Bhattacharyya" -> BhattIter(a, b, s)
    [] var = "DotProduct" -> DotIter(a, b, s)

RECURSIVE RunLoop(_, _, _, _)
RunLoop(var, a, b, s) ==
  IF InLoop(a, b, s) THEN RunLoop(var, a, b, Iter(var, a, b, s)) ELSE s

RECURSIVE RunKLTail(_, _)
RunKLTail(a, s) ==
  IF s.it1 # End(a) THEN RunKLTail(a, KLTailIter(a, s)) ELSE s

Post(var, a, s) ==
  CASE var = "L1" -> L1Post(s)
    [] var = "ChiSquare" -> ChiPost(s)
    [] var = "KL" -> RunKLTail(a, s)
    [] OTHER -> s

Run(var, a, b) ==
  Post(var, a, RunLoop(var, a, b, Begin))

ScoreOf(var, a, b) ==
  IF var = "L2" THEN L2Sequential(a, b) ELSE Run(var, a, b).score

\* ---- the state machine ---------------------------------------------------
Uninit ==
  <<>>

NewTask ==
  [pc |-> "call", term |-> Zero, pos |-> 0]

MaxOf(m, n) ==
  IF m >= n THEN m ELSE n

Init ==
  /\ variant \in Variants
  /\ v1 \in BowVector
  /\ v2 \in BowVector
  /\ v1_it = 1
  /\ v2_it = 1
  /\ score = Zero
  /\ pc = "run"
  /\ evals = {}
  /\ matched = <<>>
  /\ iters = 0
  /\ task = IF variant = "L2" THEN [j \in 1..Len(v1) |-> NewTask] ELSE <<>>
  /\ partialScores = IF variant = "L2"
                     THEN [i \in 1..MaxOf(Len(v1), Len(v2)) |-> Uninit] ELSE <<>>
  /\ finish = 0

Cur ==
  Locals(v1_it, v2_it, score, evals, matched, iters)

Set(s) ==
  /\ v1_it' = s.it1
  /\ v2_it' = s.it2
  /\ score' = s.score
  /\ evals' = s.evals
  /\ matched' = s.matched
  /\ iters' = s.iters
  /\ UNCHANGED <<variant, v1, v2, task, partialScores, finish>>

Running(var) ==
  pc = "run" /\ variant = var

L1Loop ==
  Running("L1") /\ InLoop(v1, v2, Cur) /\ Set(L1Iter(v1, v2, Cur)) /\ pc' = pc

L1Return ==
  Running("L1") /\ ~InLoop(v1, v2, Cur) /\ Set(L1Post(Cur)) /\ pc' = "done"

ChiLoop ==
  Running("ChiSquare") /\ InLoop(v1, v2, Cur) /\ Set(ChiIter(v1, v2, Cur)) /\ pc' = pc

ChiReturn ==
  Running("ChiSquare") /\ ~InLoop(v1, v2, Cur) /\ Set(ChiPost(Cur)) /\ pc' = "done"

KLLoop ==
  Running("KL") /\ InLoop(v1, v2, Cur) /\ Set(KLIter(v1, v2, Cur)) /\ pc' = pc

KLTail ==
  /\ Running("KL") /\ ~InLoop(v1, v2, Cur) /\ v1_it # End(v1)
  /\ Set(KLTailIter(v1, Cur)) /\ pc' = pc

KLReturn ==
  /\ Running("KL") /\ ~InLoop(v1, v2, Cur) /\ v1_it = End(v1)
  /\ Set(Cur) /\ pc' = "done"

BhattLoop ==
  Running("Bhattacharyya") /\ InLoop(v1, v2, Cur) /\ Set(BhattIter(v1, v2, Cur)) /\ pc' = pc

BhattReturn ==
  Running("Bhattacharyya") /\ ~InLoop(v1, v2, Cur) /\ Set(Cur) /\ pc' = "done"

DotLoop ==
  Running("DotProduct") /\ InLoop(v1, v2, Cur) /\ Set(DotIter(v1, v2, Cur)) /\ pc' = pc

DotReturn ==
  Running("DotProduct") /\ ~InLoop(v1, v2, Cur) /\ Set(Cur) /\ pc' = "done"

\* L2: the lambda on entry j, up to the push_back.
L2Call(j) ==
  /\ Running("L2") /\ task[j].pc = "call"
  /\ LET r == L2Lambda(v1, v2, j)
     IN task' = [task EXCEPT ![j] = IF r[1] THEN [pc |-> "load", term |-> r[2], pos |-> 0]
                                    ELSE [@ EXCEPT !.pc = "ret"]]
  /\ UNCHANGED <<variant, v1, v2, v1_it, v2_it, score, pc, evals, matched, iters,
                 partialScores, finish>>

\* push_back, unsynchronised: read the end pointer ...
L2PushLoad(j) ==
  /\ Running("L2") /\ task[j].pc = "load"
  /\ task' = [task EXCEPT ![j].pos = finish, ![j].pc = "store"]
  /\ UNCHANGED <<variant, v1, v2, v1_it, v2_it, score, pc, evals, matched, iters,
                 partialScores, finish>>

\* ... construct the element there ...
L2PushStore(j) ==
  /\ Running("L2") /\ task[j].pc = "store"
  /\ partialScores' = [partialScores EXCEPT ![task[j].pos + 1] = task[j].term]
  /\ task' = [task EXCEPT ![j].pc = "publish"]
  /\ UNCHANGED <<variant, v1, v2, v1_it, v2_it, score, pc, evals, matched, iters, finish>>

\* ... and write the end pointer back, advanced by one.
L2PushPublish(j) ==
  /\ Running("L2") /\ task[j].pc = "publish"
  /\ finish' = task[j].pos + 1
  /\ task' = [task EXCEPT ![j].pc = "ret"]
  /\ UNCHANGED <<variant, v1, v2, v1_it, v2_it, score, pc, evals, matched, iters,
                 partialScores>>

L2Return ==
  /\ Running("L2") /\ \A j \in 1..Len(task) : task[j].pc = "ret"
  /\ score' = L2Post(partialScores, finish)
  /\ evals' = evals \cup {<<"div", Two>>}
  /\ pc' = "done"
  /\ UNCHANGED <<variant, v1, v2, v1_it, v2_it, matched, iters, task, partialScores, finish>>

Next ==
  \/ L1Loop \/ L1Return
  \/ ChiLoop \/ ChiReturn
  \/ KLLoop \/ KLTail \/ KLReturn
  \/ BhattLoop \/ BhattReturn
  \/ DotLoop \/ DotReturn
  \/ \E j \in 1..Len(task) : L2Call(j) \/ L2PushLoad(j) \/ L2PushStore(j) \/ L2PushPublish(j)
  \/ L2Return

Spec ==
  Init /\ [][Next]_vars

\* ==== claims ==============================================================
Done ==
  pc = "done"

Common(a, b) ==
  KeysOf(a) \cap KeysOf(b)

SeqSet(q) ==
  {q[i] : i \in 1..Len(q)}

IndexOf(v, k) ==
  CHOOSE i \in 1..Len(v) : v[i][1] = k

\* the vector v with the entry (k, w) added, k not a key of v
InsertEntry(v, k, w) ==
  LET n == Cardinality({i \in 1..Len(v) : v[i][1] < k})
  IN SubSeq(v, 1, n) \o <<<<k, w>>>> \o SubSeq(v, n + 1, Len(v))

Positive(v) ==
  \A i \in 1..Len(v) : v[i][2] # Zero

Symmetric ==
  {"L1", "ChiSquare", "Bhattacharyya", "DotProduct"}

Skipping ==
  {"ChiSquare", "KL", "Bhattacharyya", "DotProduct"}

\* C1: for every variant, once score(v1, v2) has returned, the score of the
\* same pair with a zero-weight entry (k, 0) inserted into v1, or into v2, at
\* any absent word id k, equals the returned score.
C1_ZeroEntryIgnored ==
  Done =>
    /\ \A k \in WordIds \ KeysOf(v1) :
         ScoreOf(variant, InsertEntry(v1, k, Zero), v2) = score
    /\ \A k \in WordIds \ KeysOf(v2) :
         ScoreOf(variant, v1, InsertEntry(v2, k, Zero)) = score

\* C2: when the parallel for_each of L2 has finished, partialScores holds
\* exactly the terms a sequential run pushes (none lost, duplicated or
\* overwritten) and the returned score is the sequential one.
C2_ParallelIsSequential ==
  (Done /\ variant = "L2") =>
    LET seq == L2SeqTerms(v1, v2, Len(v1))
    IN /\ finish = Len(seq)
       /\ \A x \in SeqSet(seq) \cup {partialScores[i] : i \in 1..finish} :
            Cardinality({i \in 1..finish : partialScores[i] = x})
              = Cardinality({i \in 1..Len(seq) : seq[i] = x})
       /\ score = L2Sequential(v1, v2)

\* C3: no division is ever evaluated with a zero denominator and no logarithm
\* with a zero argument.
C3_NoZeroOperand ==
  \A e \in evals : e[2] # Zero

\* C4: L1, Chi-Square, Bhattacharyya and Dot-Product return the same score,
\* from the same matched keys, when their two arguments are swapped.
C4_Symmetry ==
  (Done /\ variant \in Symmetric) =>
    /\ score = ScoreOf(variant, v2, v1)
    /\ matched = Run(variant, v2, v1).matched

C4_Witness ==
  /\ Done /\ variant = "DotProduct"
  /\ Len(v1) = 2 /\ Len(v2) = 1 /\ KeyAt(v2, 1) = KeyAt(v1, 2)
  /\ ValAt(v1, 2) # ValAt(v2, 1)
  /\ score # Zero

\* C5: L1, L2, Chi-Square, Bhattacharyya and Dot-Product return 0 whenever the
\* two vectors share no word id (an empty vector included).
C5_DisjointIsZero ==
  (Done /\ variant # "KL" /\ Common(v1, v2) = {}) => score = Zero

C5_Witness ==
  /\ Done /\ variant = "L2"
  /\ Len(v1) = 2 /\ Len(v2) >= 1 /\ Positive(v1) /\ Positive(v2)
  /\ Common(v1, v2) = {}

\* C6: with strictly positive weights the KL score is the sum, over the entries
\* (k, vi) of v1, of vi*log(vi/wi) when v2 holds k and vi*(log(vi) - LOG_EPS)
\* when it does not.
RECURSIVE KLSum(_, _, _)
KLSum(a, b, j) ==
  IF j = 0 THEN Zero
  ELSE LET vi == ValAt(a, j)
           it == find(b, KeyAt(a, j))
       IN RAdd(KLSum(a, b, j - 1),
               IF it # End(b) THEN RMul(vi, RLog(RDiv(vi, ValAt(b, it))))
               ELSE RMul(vi, RSub(RLog(vi), LOG_EPS)))

C6_KLFormula ==
  (Done /\ variant = "KL" /\ Positive(v1) /\ Positive(v2)) =>
    score = KLSum(v1, v2, Len(v1))

C6_Witness ==
  /\ Done /\ variant = "KL" /\ Positive(v1) /\ Positive(v2)
  /\ Len(v1) = 2 /\ Len(v2) = 1
  /\ KeyAt(v1, 1) < KeyAt(v2, 1) /\ KeyAt(v1, 2) > KeyAt(v2, 1)
  /\ ValAt(v1, 1) # ValAt(v1, 2)
  /\ score = KLSum(v1, v2, 2)

\* C7: scenario 1, a = b = {1: 0.5, 3: 0.5}.
Scenario1 ==
  <<<<1, Half>>, <<3, Half>>>>

\* C7 as stated: L1 gives 0.5, Bhattacharyya 1.0, Dot-Product 0.5.
C7_AsStated ==
  (Done /\ v1 = Scenario1 /\ v2 = Scenario1) =>
    /\ variant = "L1" => score = Half
    /\ variant = "Bhattacharyya" => score = One
    /\ variant = "DotProduct" => score = Half

\* C7 amended: L1 gives 1.0, Bhattacharyya 1.0, Dot-Product 0.5.
C7_Scenario1 ==
  (Done /\ v1 = Scenario1 /\ v2 = Scenario1) =>
    /\ variant = "L1" => score = One
    /\ variant = "Bhattacharyya" => score = One
    /\ variant = "DotProduct" => score = Half

C7_Witness ==
  Done /\ v1 = Scenario1 /\ v2 = Scenario1 /\ variant = "L1" /\ score = One

\* C8: whatever the interleaving of its workers, L2 returns what L1 returns.
C8_L2EqualsL1 ==
  (Done /\ variant = "L2") => score = ScoreOf("L1", v1, v2)

\* C9: in Chi-Square, KL, Bhattacharyya and Dot-Product the match branch is
\* taken once for each common word id and for no other, no common id is ever
\* behind a cursor without having been matched, and no cursor moves backwards.
C9_State ==
  variant \in Skipping =>
    /\ SeqSet(matched) \subseteq Common(v1, v2)
    /\ Cardinality(SeqSet(matched)) = Len(matched)
    /\ \A k \in Common(v1, v2) \ SeqSet(matched) :
         IndexOf(v1, k) >= v1_it /\ IndexOf(v2, k) >= v2_it
    /\ Done => SeqSet(matched) = Common(v1, v2)

C9_Forward ==
  variant \in Skipping => (v1_it' >= v1_it /\ v2_it' >= v2_it)

C9_SkipIsExact ==
  []C9_State /\ [][C9_Forward]_vars

C9_Witness ==
  /\ Done /\ variant = "ChiSquare"
  /\ Len(v1) = 2 /\ Len(v2) = 2
  /\ KeyAt(v1, 1) < KeyAt(v2, 1) /\ KeyAt(v2, 1) < KeyAt(v1, 2)
  /\ matched = <<KeyAt(v1, 2)>> /\ iters = 3

\* C10: every step of a merge loop or of KL's tail strictly advances a cursor
\* and none moves back (every step of L2 advances one task), the merge loop
\* runs at most |v1| + |v2| iterations and no cursor passes the end: the
\* distance of the cursors to the ends decreases at each step, so score returns.
TaskRank(t) ==
  CASE t.pc = "call" -> 0
    [] t.pc = "load" -> 1
    [] t.pc = "store" -> 2
    [] t.pc = "publish" -> 3
    [] t.pc = "ret" -> 4

C10_Advances ==
  (pc = "run" /\ pc' = "run") =>
    IF variant = "L2"
    THEN \E j \in 1..Len(task) :
           /\ TaskRank(task'[j]) > TaskRank(task[j])
           /\ \A i \in 1..Len(task) : i # j => task'[i] = task[i]
    ELSE /\ v1_it' > v1_it \/ v2_it' > v2_it
         /\ v1_it' >= v1_it /\ v2_it' >= v2_it

C10_Bounded ==
  /\ iters <= Len(v1) + Len(v2)
  /\ v1_it <= End(v1) /\ v2_it <= End(v2)
  /\ (variant = "KL" /\ Done) => v1_it = End(v1)

C10_Terminates ==
  []C10_Bounded /\ [][C10_Advances]_vars

C10_Witness ==
  /\ Done /\ variant = "KL" /\ Len(v1) = 2 /\ Len(v2) = 1
  /\ iters = 2 /\ KeyAt(v1, 2) > KeyAt(v2, 1)

====
